---- MODULE Spec2Model ----
(***************************************************************************)
(* Model of confutil's record lookups (get_maybe_id, get_exactly_one_id)   *)
(* and of the settings upsert set_settings, over the records of one        *)
(* settings model held by the host framework's record store.               *)
(*                                                                         *)
(* A record id is its position in the store (the store never deletes).     *)
(* The value 0 stands for Python's False / an empty many2one; the company  *)
(* argument 0 stands for company=None.                                     *)
(***************************************************************************)
EXTENDS Integers, Sequences, FiniteSets

\* Bound of the model: the most records the store ever holds.
MaxRecords == 2

\* ---------------------------------------------------------------- values

NoCompany == 0
Companies == {1, 2}
Fields == {"company_id", "default_sale_tax"}
FieldValues(f) == IF f = "company_id" THEN {0} \cup Companies ELSE {0, 1}

\* The records a settings model can hold: every declared field has a value.
Records == {r \in [Fields -> {0, 1, 2}] : \A f \in Fields : r[f] \in FieldValues(f)}

\* Python dicts over field names: functions whose domain is a set of fields.
Dicts == UNION {{d \in [S -> {0, 1, 2}] : \A f \in S : d[f] \in FieldValues(f)} : S \in SUBSET Fields}

\* dict.update: d overlaid by c.
update(d, c) == [f \in (DOMAIN d) \cup (DOMAIN c) |-> IF f \in DOMAIN c THEN c[f] ELSE d[f]]

\* data['company_id'] = company.id
setitem(d, k, v) == [f \in (DOMAIN d) \cup {k} |-> IF f = k THEN v ELSE d[f]]

\* Search domains: lists of (field, '=', value) terms, all of which must hold.
Term(f, v) == <<f, "=", v>>
Domains == {<<>>}
           \cup {<<Term(f, v)>> : f \in {"company_id"}, v \in FieldValues("company_id")}
           \cup {<<Term(f, v)>> : f \in {"default_sale_tax"}, v \in FieldValues("default_sale_tax")}
           \cup {<<Term("company_id", c), Term("default_sale_tax", t)>> :
                    c \in Companies, t \in FieldValues("default_sale_tax")}

\* What the model's default_get can answer: the host decides it per model.
DefaultChoices == {d \in Dicts : d = [f \in {} |-> 0]
                                 \/ (DOMAIN d = Fields /\ d["company_id"] = 1 /\ d["default_sale_tax"] = 1)}

\* Outcomes of a call: a returned value (an id, or None) or a raised exception.
Return(i) == [kind |-> "return", none |-> FALSE, id |-> i, exc |-> ""]
ReturnNone == [kind |-> "return", none |-> TRUE, id |-> 0, exc |-> ""]
Raise(e) == [kind |-> "raise", none |-> FALSE, id |-> 0, exc |-> e]

\* ------------------------------------------------------- the record store

Matches(rec, domain) == \A k \in 1..Len(domain) : rec[domain[k][1]] = domain[k][3]

\* The ids from i on of the records that satisfy the domain, in id order.
RECURSIVE SelectIds(_, _, _)
SelectIds(st, domain, i) ==
    IF i > Len(st) THEN <<>>
    ELSE (IF Matches(st[i], domain) THEN <<i>> ELSE <<>>) \o SelectIds(st, domain, i + 1)

\* model.search(cr, uid, domain): the ids of the matching records, in id order.
search(st, domain) == SelectIds(st, domain, 1)

\* model.fields_get(): the declared fields.
fields_get == Fields

\* model.default_get(fields): the defaults of those fields that have one.
default_get(dflt, fields) == [f \in (DOMAIN dflt) \cap fields |-> dflt[f]]

\* model.create(data): a new record; fields without a value are False.
create(st, data) == Append(st, [f \in Fields |-> IF f \in DOMAIN data THEN data[f] ELSE 0])

\* model.write([id], changes): only the named fields are assigned.
write(st, id, changes) ==
    [st EXCEPT ![id] = [f \in Fields |-> IF f \in DOMAIN changes THEN changes[f] ELSE st[id][f]]]

\* ---------------------------------------------------------------- lookups

\* Mutant: more than one match answers the first id.
get_maybe_id_first(st, domain) ==
    LET ids == search(st, domain)
    IN IF Len(ids) = 0 THEN ReturnNone ELSE Return(ids[1])

\* Mutant: the cardinality test is off by one.
get_maybe_id_off_by_one(st, domain) ==
    LET ids == search(st, domain)
    IN IF Len(ids) > 2 THEN Raise("TooManyRecordsError")
       ELSE IF Len(ids) = 0 THEN ReturnNone
       ELSE Return(ids[1])

get_maybe_id(st, domain) ==
    LET ids == search(st, domain)
    IN IF Len(ids) > 1 THEN Raise("TooManyRecordsError")
       ELSE IF Len(ids) = 0 THEN ReturnNone
       ELSE Return(ids[1])

\* Mutant: the None of get_maybe_id is handed on instead of raising.
get_exactly_one_id_passthrough(st, domain) == get_maybe_id(st, domain)

\* Mutant: the test for None is inverted.
get_exactly_one_id_inverted(st, domain) ==
    LET retrieved_id == get_maybe_id(st, domain)
    IN IF retrieved_id.kind = "raise" THEN retrieved_id
       ELSE IF ~retrieved_id.none THEN Raise("NoRecordsError")
       ELSE retrieved_id

get_exactly_one_id(st, domain) ==
    LET retrieved_id == get_maybe_id(st, domain)
    IN IF retrieved_id.kind = "raise" THEN retrieved_id
       ELSE IF retrieved_id.none THEN Raise("NoRecordsError")
       ELSE retrieved_id

\* ----------------------------------------------------------- set_settings

\* One ORM call of set_settings, with the record it targets (0: none).
Op(name, id) == [op |-> name, id |-> id]

\* Mutant: without a company the lookup is for the unscoped records only.
settings_domain_unscoped(company) == <<Term("company_id", company)>>

\* domain = [('company_id', '=', company.id)] if company else []
settings_domain(company) ==
    IF company # NoCompany THEN <<Term("company_id", company)>> ELSE <<>>

\* Mutant: the company is set before the changes are overlaid, so that a
\* company_id named in the changes wins.
create_data_changes_win(dflt, changes, company) ==
    LET data == default_get(dflt, fields_get)
    IN update(IF company # NoCompany THEN setitem(data, "company_id", company) ELSE data, changes)

\* The data of the record created when the lookup found none.
create_data(dflt, changes, company) ==
    LET data == update(default_get(dflt, fields_get), changes)
    IN IF company # NoCompany THEN setitem(data, "company_id", company) ELSE data

\* The branch settings_id is None: default_get, update, create.
settings_absent(st, dflt, changes, company) ==
    [store |-> create(st, create_data(dflt, changes, company)),
     id |-> Len(st) + 1,
     log |-> <<Op("fields_get", 0), Op("default_get", 0), Op("create", Len(st) + 1)>>]

\* Mutant: the record found is replaced by the changes, the fields they do
\* not name becoming False.
settings_present_overwrite(st, settings_id, changes) ==
    [store |-> [st EXCEPT ![settings_id] =
                    [f \in Fields |-> IF f \in DOMAIN changes THEN changes[f] ELSE 0]],
     id |-> settings_id,
     log |-> <<Op("write", settings_id)>>]

\* The branch settings_id is not None: write the changes to the record found.
settings_present(st, settings_id, changes) ==
    [store |-> write(st, settings_id, changes),
     id |-> settings_id,
     log |-> <<Op("write", settings_id)>>]

\* Mutant: execute is part of the create branch only.
settings_execute_created_only(r) ==
    IF r.log[Len(r.log)].op = "create"
    THEN [r EXCEPT !.log = Append(r.log, Op("execute", r.id))]
    ELSE r

\* settings_model.execute(cr, uid, [settings_id]) after either branch.
settings_execute(r) == [r EXCEPT !.log = Append(r.log, Op("execute", r.id))]

set_settings(st, dflt, changes, company) ==
    LET settings_id == get_maybe_id(st, settings_domain(company))
    IN IF settings_id.kind = "raise"
       THEN [store |-> st, result |-> settings_id, log |-> <<Op("search", 0)>>]
       ELSE LET r == settings_execute(IF settings_id.none
                                      THEN settings_absent(st, dflt, changes, company)
                                      ELSE settings_present(st, settings_id.id, changes))
            IN [store |-> r.store, result |-> ReturnNone, log |-> <<Op("search", 0)>> \o r.log]

\* ------------------------------------------------------------------ state

VARIABLES
    store,      \* the settings model's records, by id
    defaults,   \* what the model's default_get answers
    before,     \* the store when the last call was made
    call,       \* the last call: its function and arguments
    result,     \* what the last call returned or raised
    log,        \* the ORM calls the last call issued, in order
    prev,       \* the last lookup made before the last call, with its result
    types,      \* the account.account.type records, by id
    accounts,   \* the number of account.account records
    consol,     \* the last create_consolidation_account call and its outcome
    groups,     \* the res.groups records, by id
    user_fields,\* the application categories res.users has a sel_groups_ field for
    user,       \* the user's value of each such field: a group id, or False
    sel,        \* the last select_sale_user_level call and its outcome
    charts,     \* the companies that have a chart of accounts
    wizards,    \* the wizard.multi.charts.accounts records, by id
    fiscalyears,\* the account.fiscalyear records, by id
    setup       \* the last setup_company_accounts call: arguments, ORM calls

settings_vars == <<store, defaults, before, call, result, log, prev>>
consol_vars == <<types, accounts, consol>>
users_vars == <<groups, user_fields, user, sel>>
setup_vars == <<charts, wizards, fiscalyears, setup>>
vars == <<settings_vars, consol_vars, users_vars, setup_vars>>

\* What each part of the model leaves alone.
beside_settings == <<consol_vars, users_vars, setup_vars>>
beside_consol == <<settings_vars, users_vars, setup_vars>>
beside_users == <<settings_vars, consol_vars, setup_vars>>
beside_setup == <<settings_vars, consol_vars, users_vars>>

\* No create_consolidation_account call has been made, on an empty chart.
NoConsol == [company |-> NoCompany, code |-> "", name |-> "", children |-> <<>>,
             result |-> ReturnNone, created |-> <<>>]
ConsolIdle == types = <<>> /\ accounts = 0 /\ consol = NoConsol

\* Python's False as a level or group name.
PyFalse == "False"

\* No select_sale_user_level call has been made, with no group and no user.
NoSel == [level |-> PyFalse, context |-> FALSE, result |-> ReturnNone,
          attempts |-> <<>>, writes |-> <<>>, user_before |-> 0]
UsersIdle == groups = <<>> /\ user_fields = {} /\ user = 0 /\ sel = NoSel

\* No setup_company_accounts call has been made, no company has a chart.
NoSetup == [called |-> FALSE, company |-> NoCompany, chart_template |-> 0, code_digits |-> 0,
            today |-> 0, log |-> <<>>,
            before |-> [charts |-> {}, wizards |-> <<>>, fiscalyears |-> <<>>]]
SetupIdle == charts = {} /\ wizards = <<>> /\ fiscalyears = <<>> /\ setup = NoSetup

Call(op, company, changes, domain) ==
    [op |-> op, company |-> company, changes |-> changes, domain |-> domain]

NoChanges == [f \in {} |-> 0]

\* No lookup has been made yet.
NoLookup == [call |-> Call("init", NoCompany, NoChanges, <<>>), result |-> ReturnNone]

Stores == UNION {[1..n -> Records] : n \in 0..MaxRecords}

Init ==
    /\ store \in Stores
    /\ defaults \in DefaultChoices
    /\ before = store
    /\ call = Call("init", NoCompany, NoChanges, <<>>)
    /\ result = ReturnNone
    /\ log = <<>>
    /\ prev = NoLookup
    /\ ConsolIdle /\ UsersIdle /\ SetupIdle

GetMaybeId(domain) ==
    /\ call' = Call("get_maybe_id", NoCompany, NoChanges, domain)
    /\ result' = get_maybe_id(store, domain)
    /\ log' = <<Op("search", 0)>>
    /\ before' = store
    /\ UNCHANGED <<store, defaults>>

\* Mutant: the answer of the last identical lookup is kept and given again.
GetExactlyOneId_cached(domain) ==
    LET this == Call("get_exactly_one_id", NoCompany, NoChanges, domain)
    IN /\ call' = this
       /\ result' = IF call = this THEN result
                    ELSE IF prev.call = this THEN prev.result
                    ELSE get_exactly_one_id(store, domain)
       /\ log' = <<Op("search", 0)>>
       /\ before' = store
       /\ UNCHANGED <<store, defaults>>

GetExactlyOneId(domain) ==
    /\ call' = Call("get_exactly_one_id", NoCompany, NoChanges, domain)
    /\ result' = get_exactly_one_id(store, domain)
    /\ log' = <<Op("search", 0)>>
    /\ before' = store
    /\ UNCHANGED <<store, defaults>>

SetSettings(company, changes) ==
    LET r == set_settings(store, defaults, changes, company)
    IN /\ Len(r.store) <= MaxRecords
       /\ call' = Call("set_settings", company, changes, settings_domain(company))
       /\ store' = r.store
       /\ result' = r.result
       /\ log' = r.log
       /\ before' = store
       /\ UNCHANGED defaults

Next ==
    \/ \E domain \in Domains : GetMaybeId(domain) /\ UNCHANGED <<prev, beside_settings>>
    \/ \E domain \in Domains : GetExactlyOneId(domain) /\ UNCHANGED <<prev, beside_settings>>
    \/ \E company \in {NoCompany} \cup Companies, changes \in Dicts :
          SetSettings(company, changes) /\ UNCHANGED <<prev, beside_settings>>

Spec == Init /\ [][Next]_vars

\* No settings call has been made, on an empty store.
SettingsIdle ==
    /\ store = <<>>
    /\ defaults = NoChanges
    /\ before = <<>>
    /\ call = Call("init", NoCompany, NoChanges, <<>>)
    /\ result = ReturnNone
    /\ log = <<>>
    /\ prev = NoLookup

\* ------------------------------------- lookups on a store that others fill

\* The domains looked up while records are being added.
LookupDomains == {<<>>, <<Term("company_id", 1)>>, <<Term("default_sale_tax", 1)>>}

\* model.create(cr, uid, data) by another caller: one more record in the store.
OrmCreate(data) ==
    /\ Len(store) < MaxRecords
    /\ store' = create(store, data)
    /\ call' = Call("create", NoCompany, data, <<>>)
    /\ result' = Return(Len(store) + 1)
    /\ log' = <<Op("create", Len(store) + 1)>>
    /\ before' = store
    /\ UNCHANGED defaults

\* prev follows the calls: the lookup the last call was, if it was one.
Remember ==
    prev' = IF call.op \in {"get_maybe_id", "get_exactly_one_id"}
            THEN [call |-> call, result |-> result]
            ELSE prev

InitLookup ==
    /\ store \in Stores
    /\ defaults = NoChanges
    /\ before = store
    /\ call = Call("init", NoCompany, NoChanges, <<>>)
    /\ result = ReturnNone
    /\ log = <<>>
    /\ prev = NoLookup
    /\ ConsolIdle /\ UsersIdle /\ SetupIdle

NextLookup ==
    \/ \E domain \in LookupDomains : GetMaybeId(domain) /\ Remember /\ UNCHANGED beside_settings
    \/ \E domain \in LookupDomains : GetExactlyOneId(domain) /\ Remember /\ UNCHANGED beside_settings
    \/ \E data \in Records : OrmCreate(data) /\ Remember /\ UNCHANGED beside_settings

SpecLookup == InitLookup /\ [][NextLookup]_vars

TypeOK ==
    /\ store \in Seq(Records) /\ Len(store) <= MaxRecords
    /\ defaults \in DefaultChoices
    /\ call.op \in {"init", "get_maybe_id", "get_exactly_one_id", "set_settings"}

\* ------------------------------------------- create_consolidation_account

\* Bounds of the model: the longest children list, the most accounts created.
MaxChildren == 2
MaxAccounts == 2

ADD_EXISTING_ID == 4

ChildIds == {1, 2}
Codes == {"X100", "X200"}
Names == {"Consolidated"}
TypeNames == {"Root/View", "Asset"}

\* Mutant: one link per child.
child_consol_ids_one_each(children) ==
    [i \in 1..Len(children) |-> <<ADD_EXISTING_ID, children[i], FALSE>>]

\* for child_id in children (from the i-th on) for child in children: one
\* link to child_id per element of children.
RECURSIVE for_child_id(_, _)
for_child_id(children, i) ==
    IF i > Len(children) THEN <<>>
    ELSE [j \in 1..Len(children) |-> <<ADD_EXISTING_ID, children[i], FALSE>>]
         \o for_child_id(children, i + 1)

\* [(ADD_EXISTING_ID, child_id, False) for child_id in children for child in children]
child_consol_ids(children) == for_child_id(children, 1)

\* The call: the lookup of the 'Root/View' type, then the data handed to
\* account.account's create (the company argument is not used).
create_consolidation_account(tys, n, company, code, name, children) ==
    LET account_type_view_id == get_exactly_one_id(tys, <<Term("name", "Root/View")>>)
    IN IF account_type_view_id.kind = "raise"
       THEN [result |-> account_type_view_id, created |-> <<>>]
       ELSE [result |-> Return(n + 1),
             created |-> <<[code |-> code,
                            name |-> name,
                            type |-> "consolidation",
                            user_type |-> account_type_view_id.id,
                            child_consol_ids |-> child_consol_ids(children)]>>]

ChildLists == UNION {[1..n -> ChildIds] : n \in 0..MaxChildren}

InitConsol ==
    /\ types \in UNION {[1..n -> [name : TypeNames]] : n \in 0..MaxRecords}
    /\ accounts = 0
    /\ consol = NoConsol
    /\ SettingsIdle /\ UsersIdle /\ SetupIdle

CreateConsolidationAccount(company, code, name, children) ==
    LET r == create_consolidation_account(types, accounts, company, code, name, children)
    IN /\ accounts + Len(r.created) <= MaxAccounts
       /\ accounts' = accounts + Len(r.created)
       /\ consol' = [company |-> company, code |-> code, name |-> name, children |-> children,
                     result |-> r.result, created |-> r.created]
       /\ UNCHANGED types

NextConsol ==
    \E company \in Companies, code \in Codes, name \in Names, children \in ChildLists :
        CreateConsolidationAccount(company, code, name, children) /\ UNCHANGED beside_consol

SpecConsol == InitConsol /\ [][NextConsol]_vars

\* ------------------------------------------------- select_sale_user_level

\* Bound of the model: the most res.groups records.
MaxGroups == 2

\* crm_perm_map: the sale module's level names to the crm module's.
crm_perm_map ==
    [level \in {PyFalse, "See all Leads", "See Own Leads", "Manager"} |->
        CASE level = PyFalse -> PyFalse
          [] level = "See all Leads" -> "User: All Leads"
          [] level = "See Own Leads" -> "User: Own Leads Only"
          [] level = "Manager" -> "Manager"]

Levels == DOMAIN crm_perm_map
Categories == {"Sales", "Accounting & Finance"}
GroupNames == {"See all Leads", "User: All Leads", "Manager"}
Groups == {g \in [{"category_id.name", "name"} -> Categories \cup GroupNames] :
              g["category_id.name"] \in Categories /\ g["name"] \in GroupNames}

\* The id of the category's group of that name; False for no group.
app_group_id(grps, category_name, group_name) ==
    IF group_name # PyFalse
    THEN get_exactly_one_id(grps, <<Term("category_id.name", category_name),
                                    Term("name", group_name)>>)
    ELSE Return(0)

\* select_user_levels with changes = {category: group}: the group's id is
\* looked up, then the category's field (a KeyError when res.users has none),
\* then the user is written.
select_user_levels(grps, fields, usr, category, group) ==
    LET gid == app_group_id(grps, category, group)
    IN IF gid.kind = "raise" THEN [result |-> gid, user |-> usr, writes |-> <<>>]
       ELSE IF category \notin fields
       THEN [result |-> Raise("KeyError"), user |-> usr, writes |-> <<>>]
       ELSE [result |-> ReturnNone, user |-> gid.id, writes |-> <<gid.id>>]

\* Mutant: the handler catches WrongNumberOfRecordsError, the base of both errors.
select_sale_user_level_any(grps, fields, usr, level, context) ==
    IF ~context
    THEN [result |-> Raise("AttributeError"), user |-> usr, attempts |-> <<>>, writes |-> <<>>]
    ELSE LET first == select_user_levels(grps, fields, usr, "Sales", level)
         IN IF first.result.exc \in {"NoRecordsError", "TooManyRecordsError"}
            THEN LET crm_level == crm_perm_map[level]
                     second == select_user_levels(grps, fields, first.user, "Sales", crm_level)
                 IN [result |-> second.result, user |-> second.user,
                     attempts |-> <<level, crm_level>>,
                     writes |-> first.writes \o second.writes]
            ELSE [result |-> first.result, user |-> first.user,
                  attempts |-> <<level>>, writes |-> first.writes]

\* context.copy() fails on the default context=None; else the level is tried,
\* and on NoRecordsError, and on it alone, the crm name of the level.
select_sale_user_level(grps, fields, usr, level, context) ==
    IF ~context
    THEN [result |-> Raise("AttributeError"), user |-> usr, attempts |-> <<>>, writes |-> <<>>]
    ELSE LET first == select_user_levels(grps, fields, usr, "Sales", level)
         IN IF first.result = Raise("NoRecordsError")
            THEN LET crm_level == crm_perm_map[level]
                     second == select_user_levels(grps, fields, first.user, "Sales", crm_level)
                 IN [result |-> second.result, user |-> second.user,
                     attempts |-> <<level, crm_level>>,
                     writes |-> first.writes \o second.writes]
            ELSE [result |-> first.result, user |-> first.user,
                  attempts |-> <<level>>, writes |-> first.writes]

InitUsers ==
    /\ groups \in UNION {[1..n -> Groups] : n \in 0..MaxGroups}
    /\ user_fields \in {{}, {"Sales"}}
    /\ user = 0
    /\ sel = NoSel
    /\ SettingsIdle /\ ConsolIdle /\ SetupIdle

SelectSaleUserLevel(level, context) ==
    LET r == select_sale_user_level(groups, user_fields, user, level, context)
    IN /\ user' = r.user
       /\ sel' = [level |-> level, context |-> context, result |-> r.result,
                  attempts |-> r.attempts, writes |-> r.writes, user_before |-> user]
       /\ UNCHANGED <<groups, user_fields>>

NextUsers ==
    \E level \in Levels, context \in BOOLEAN :
        SelectSaleUserLevel(level, context) /\ UNCHANGED beside_users

SpecUsers == InitUsers /\ [][NextUsers]_vars

\* --------------------------------------------------- setup_company_accounts

Templates == {1, 2}
Years == {2014, 2015}

\* The chart wizard's default_get and onchange_chart_template_id answers.
wizard_defaults == [bank_accounts_id |-> <<"Cash", "Bank">>, currency_id |-> 1]
template_code_digits == [t \in Templates |-> IF t = 1 THEN 6 ELSE 8]
onchange_chart_template_id(chart_template_id) ==
    [code_digits |-> template_code_digits[chart_template_id]]

\* account.installer's get_unconfigured_cmp: the companies without a chart.
unconfigured_company_ids(chs) == Companies \ chs

\* Mutant: the membership test is the wrong way round.
company_configured_inverted(chs, company) == company \in unconfigured_company_ids(chs)

company_configured(chs, company) == company \notin unconfigured_company_ids(chs)

\* One ORM call on a model, with the record it targets (0: none).
ModelOp(model, name, id) == [model |-> model, op |-> name, id |-> id]

\* The wizard's data: its defaults, the template and the company, what the
\* template's onchange gives, and the code_digits asked for, if any.
chart_wizard_data(company_id, chart_template_id, code_digits) ==
    [chart_template_id |-> chart_template_id,
     company_id |-> company_id,
     bank_accounts_id |-> [i \in 1..Len(wizard_defaults.bank_accounts_id) |->
                              <<0, FALSE, wizard_defaults.bank_accounts_id[i]>>],
     currency_id |-> wizard_defaults.currency_id,
     code_digits |-> IF code_digits # 0 THEN code_digits
                     ELSE onchange_chart_template_id(chart_template_id).code_digits]

\* The wizard is created, then executed: executing it gives its company the
\* chart of accounts.
setup_chart_of_accounts(st, company_id, chart_template_id, code_digits) ==
    LET conf_id == Len(st.wizards) + 1
    IN [st EXCEPT
           !.wizards = Append(@, chart_wizard_data(company_id, chart_template_id, code_digits)),
           !.charts = @ \cup {company_id},
           !.log = @ \o <<ModelOp("wizard.multi.charts.accounts", "default_get", 0),
                          ModelOp("wizard.multi.charts.accounts", "onchange_chart_template_id", 0),
                          ModelOp("wizard.multi.charts.accounts", "create", conf_id),
                          ModelOp("wizard.multi.charts.accounts", "execute", conf_id)>>]

\* The fiscal year is created, then its periods.
create_fiscal_year(st, company_id, name, code, start_date, end_date) ==
    LET fy_id == Len(st.fiscalyears) + 1
    IN [st EXCEPT
           !.fiscalyears = Append(@, [state |-> "draft", company_id |-> company_id,
                                      name |-> name, code |-> code,
                                      date_start |-> start_date, date_stop |-> end_date,
                                      periods |-> TRUE]),
           !.log = @ \o <<ModelOp("account.fiscalyear", "default_get", 0),
                          ModelOp("account.fiscalyear", "create", fy_id),
                          ModelOp("account.fiscalyear", "create_period", fy_id)>>]

\* today.strftime('%Y') is <<year>>, 'FY' + it <<"FY", year>>, the dates
\* <<year, month, day>>.
setup_company_accounts(st, company, chart_template, code_digits, today) ==
    LET asked == [st EXCEPT !.log = @ \o <<ModelOp("account.installer", "get_unconfigured_cmp", 0)>>]
    IN IF ~company_configured(st.charts, company)
       THEN create_fiscal_year(setup_chart_of_accounts(asked, company, chart_template, code_digits),
                               company, <<today>>, <<"FY", today>>,
                               <<today, 1, 1>>, <<today, 12, 31>>)
       ELSE asked

InitSetup ==
    /\ charts \in SUBSET Companies
    /\ wizards = <<>>
    /\ fiscalyears = <<>>
    /\ setup = NoSetup
    /\ SettingsIdle /\ ConsolIdle /\ UsersIdle

SetupCompanyAccounts(company, chart_template, code_digits, today) ==
    LET now == [charts |-> charts, wizards |-> wizards, fiscalyears |-> fiscalyears]
        r == setup_company_accounts([charts |-> charts, wizards |-> wizards,
                                     fiscalyears |-> fiscalyears, log |-> <<>>],
                                    company, chart_template, code_digits, today)
    IN /\ charts' = r.charts
       /\ wizards' = r.wizards
       /\ fiscalyears' = r.fiscalyears
       /\ setup' = [called |-> TRUE, company |-> company, chart_template |-> chart_template,
                    code_digits |-> code_digits, today |-> today, log |-> r.log,
                    before |-> now]

NextSetup ==
    \E company \in Companies, chart_template \in Templates, code_digits \in {0, 4}, today \in Years :
        SetupCompanyAccounts(company, chart_template, code_digits, today) /\ UNCHANGED beside_setup

SpecSetup == InitSetup /\ [][NextSetup]_vars

\* ----------------------------------------------------------------- claims

IsLookup == call.op \in {"get_maybe_id", "get_exactly_one_id"}
IsSetSettings == call.op = "set_settings"

\* The ids of the records of st that satisfy every term of the domain.
Matching(st, domain) == {i \in 1..Len(st) : Matches(st[i], domain)}

\* The ORM calls of the log that create, write or execute a record.
Mutations == {k \in 1..Len(log) : log[k].op \in {"create", "write", "execute"}}

\* At most one record per scope, the scope of a record being its company_id.
AtMostOnePerScope(st) ==
    \A i, j \in 1..Len(st) : st[i]["company_id"] = st[j]["company_id"] => i = j

\* C1: a lookup whose domain matches two or more records fails with
\* TooManyRecordsError, in get_maybe_id and in get_exactly_one_id alike; it
\* returns neither an id nor None.
C1_TooManyRecords ==
    (IsLookup /\ Cardinality(Matching(before, call.domain)) >= 2)
        => result = Raise("TooManyRecordsError")

C1_Witness ==
    /\ call.op = "get_exactly_one_id"
    /\ Cardinality(Matching(before, call.domain)) >= 2
    /\ result.kind = "raise"

\* C2: when the domain matches no record, get_maybe_id returns None without
\* raising and get_exactly_one_id fails with NoRecordsError.
C2_NoRecords ==
    (IsLookup /\ Matching(before, call.domain) = {})
        => /\ call.op = "get_maybe_id" => result = ReturnNone
           /\ call.op = "get_exactly_one_id" => result = Raise("NoRecordsError")

C2_Witness ==
    /\ call.op = "get_exactly_one_id"
    /\ Matching(before, call.domain) = {}
    /\ Len(before) > 0
    /\ result.exc = "NoRecordsError"

\* C3: when the domain matches exactly one record, both lookups return the id
\* of that record and raise nothing; and whenever get_maybe_id returns an id,
\* get_exactly_one_id returns the same id.
C3_ExactlyOne ==
    /\ (IsLookup /\ Cardinality(Matching(before, call.domain)) = 1)
          => \E i \in Matching(before, call.domain) : result = Return(i)
    /\ (call.op = "get_exactly_one_id"
          /\ get_maybe_id(before, call.domain).kind = "return"
          /\ ~get_maybe_id(before, call.domain).none)
          => result = get_maybe_id(before, call.domain)

C3_Witness ==
    /\ call.op = "get_exactly_one_id"
    /\ Len(before) = 2
    /\ Matching(before, call.domain) = {2}
    /\ result = Return(2)

\* C4: set_settings is idempotent: a second call with the same company and
\* the same changes, right after one that succeeded, leaves every record as the
\* first call left it and creates no record.
C4_Idempotent ==
    [][(/\ IsSetSettings /\ result.kind = "return"
        /\ call'.op = "set_settings"
        /\ call'.company = call.company
        /\ call'.changes = call.changes)
       => (/\ store' = store
           /\ \A k \in 1..Len(log') : log'[k].op # "create")]_vars

\* C5: set_settings keeps at most one settings record per scope: called on a
\* store with at most one record per company_id, it leaves such a store, and
\* it creates a record only when the lookup for the scope found none.
C5_AtMostOnePerScope ==
    (IsSetSettings /\ AtMostOnePerScope(before))
        => /\ AtMostOnePerScope(store)
           /\ (Len(store) > Len(before)) => Matching(before, call.domain) = {}

\* C6: set_settings for company A leaves every record scoped otherwise as it
\* was, and creates, writes and executes exactly one record, which is not a
\* record of another company when it does so.
C6_OtherScopesUntouched ==
    (IsSetSettings /\ call.company # NoCompany /\ result.kind = "return")
        => /\ \A i \in 1..Len(before) :
                 before[i]["company_id"] # call.company => store[i] = before[i]
           /\ Cardinality({log[k].id : k \in Mutations}) = 1
           /\ \A k \in Mutations :
                 LET rec == IF log[k].op = "write" THEN before[log[k].id] ELSE store[log[k].id]
                 IN rec["company_id"] \notin Companies \ {call.company}

\* C7: when no record exists for the given company, set_settings creates
\* exactly one record, holding the company's id as company_id, for every other
\* field the value the changes name, else the model's default, else False; and
\* then executes that record.
C7_CreatedRecord ==
    (IsSetSettings /\ call.company # NoCompany /\ Matching(before, call.domain) = {})
        => /\ result = ReturnNone
           /\ Len(store) = Len(before) + 1
           /\ \A i \in 1..Len(before) : store[i] = before[i]
           /\ \A f \in Fields :
                 store[Len(store)][f] =
                     IF f = "company_id" THEN call.company
                     ELSE IF f \in DOMAIN call.changes THEN call.changes[f]
                     ELSE IF f \in DOMAIN defaults THEN defaults[f]
                     ELSE 0
           /\ Cardinality({k \in 1..Len(log) : log[k].op = "create"}) = 1
           /\ log[Len(log) - 1] = Op("create", Len(store))
           /\ log[Len(log)] = Op("execute", Len(store))

C7_Witness ==
    /\ IsSetSettings /\ call.company = 2
    /\ Matching(before, call.domain) = {}
    /\ Len(before) = 1
    /\ "company_id" \in DOMAIN call.changes /\ call.changes["company_id"] = 1
    /\ DOMAIN defaults = Fields
    /\ store[2] = [company_id |-> 2, default_sale_tax |-> 1]
    /\ log[Len(log)] = Op("execute", 2)

\* C8: when exactly one record matches the scope, set_settings assigns the
\* fields named in the changes on that record and nothing else: every other
\* field of it and every other record keep their values, no default is
\* applied and no record is created.
C8_PartialUpdate ==
    (IsSetSettings /\ Cardinality(Matching(before, call.domain)) = 1)
        => /\ Len(store) = Len(before)
           /\ \A k \in 1..Len(log) : log[k].op \notin {"create", "default_get"}
           /\ \A i \in 1..Len(before) : \A f \in Fields :
                 store[i][f] = IF i \in Matching(before, call.domain) /\ f \in DOMAIN call.changes
                               THEN call.changes[f]
                               ELSE before[i][f]

C8_Witness ==
    /\ IsSetSettings /\ call.company = 1
    /\ Matching(before, call.domain) = {1}
    /\ DOMAIN call.changes = {"default_sale_tax"}
    /\ before[1]["default_sale_tax"] # call.changes["default_sale_tax"]
    /\ store[1]["default_sale_tax"] = call.changes["default_sale_tax"]
    /\ store[1]["company_id"] = 1
    /\ DOMAIN defaults = Fields

\* C9: a set_settings call that returns normally has executed exactly once,
\* as its last ORM call, the record it created or wrote in the call just
\* before; no call returns having created or written without executing.
C9_ExecutedAfterWrite ==
    (IsSetSettings /\ result.kind = "return")
        => /\ Len(log) >= 2
           /\ log[Len(log)].op = "execute"
           /\ log[Len(log) - 1].op \in {"create", "write"}
           /\ log[Len(log) - 1].id = log[Len(log)].id
           /\ Cardinality({k \in 1..Len(log) : log[k].op = "execute"}) = 1
           /\ Cardinality({k \in 1..Len(log) : log[k].op \in {"create", "write"}}) = 1

C9_Witness ==
    /\ IsSetSettings /\ result.kind = "return"
    /\ log[Len(log) - 1] = Op("write", 2)
    /\ log[Len(log)] = Op("execute", 2)

\* C10: when more than one record matches the scope's domain, set_settings
\* fails with the lookup's TooManyRecordsError before any mutation: it issues
\* no create, write or execute and leaves the store as it was.
C10_TooManyNoMutation ==
    (IsSetSettings /\ Cardinality(Matching(before, call.domain)) > 1)
        => /\ result = Raise("TooManyRecordsError")
           /\ store = before
           /\ Mutations = {}

C10_Witness ==
    /\ IsSetSettings /\ call.company = 1
    /\ Cardinality(Matching(before, call.domain)) > 1
    /\ DOMAIN call.changes # {}
    /\ result.kind = "raise"

\* What set_settings does without a company on a store that holds records:
\* the empty domain matches the records of every scope, so a single record
\* is written and executed whatever its company_id, and two or more make the
\* call fail with TooManyRecordsError.
GlobalOnRecords ==
    /\ call.domain = <<>>
    /\ Len(before) = 1
          => /\ result = ReturnNone
             /\ log = <<Op("search", 0), Op("write", 1), Op("execute", 1)>>
             /\ Len(store) = 1
    /\ Len(before) >= 2
          => /\ result = Raise("TooManyRecordsError")
             /\ store = before
    /\ (\E k \in 1..Len(log) : log[k].op = "create") <=> Len(before) = 0

\* C15 as stated: a call without a company searches with the empty domain,
\* writes and executes the only record of the store whatever its scope, fails
\* with TooManyRecordsError on two or more, and only on an empty store creates
\* a record, which is unscoped.
C15_GlobalCreatesUnscoped ==
    (IsSetSettings /\ call.company = NoCompany)
        => /\ GlobalOnRecords
           /\ Len(before) = 0 => (Len(store) = 1 /\ store[1]["company_id"] = 0)

\* C15 as amended: as above, but the record created on an empty store is not
\* scoped by set_settings: its company_id is the one the changes name, else
\* the model's default, else False.
C15_GlobalScope ==
    (IsSetSettings /\ call.company = NoCompany)
        => /\ GlobalOnRecords
           /\ Len(before) = 0
                 => /\ Len(store) = 1
                    /\ \A f \in Fields :
                          store[1][f] = IF f \in DOMAIN call.changes THEN call.changes[f]
                                        ELSE IF f \in DOMAIN defaults THEN defaults[f]
                                        ELSE 0

C15_Witness ==
    /\ IsSetSettings /\ call.company = NoCompany
    /\ Len(before) = 1 /\ before[1]["company_id"] = 2
    /\ DOMAIN call.changes = {"default_sale_tax"}
    /\ store[1] # before[1]
    /\ log[Len(log)] = Op("execute", 1)

\* C12: a lookup is read-only and stateless: it leaves the store as it was,
\* its outcome is the one the store at call time determines, whatever was
\* looked up before, and a lookup that returned the id of the sole matching
\* record fails with TooManyRecordsError when it is made again after a second
\* matching record was added.
C12_Stateless ==
    IsLookup
        => /\ store = before
           /\ log = <<Op("search", 0)>>
           /\ result = IF Matching(store, call.domain) = {}
                       THEN (IF call.op = "get_maybe_id" THEN ReturnNone ELSE Raise("NoRecordsError"))
                       ELSE IF Cardinality(Matching(store, call.domain)) > 1
                       THEN Raise("TooManyRecordsError")
                       ELSE Return(CHOOSE i \in Matching(store, call.domain) : TRUE)
           /\ (/\ prev.call = call
               /\ prev.result.kind = "return" /\ ~prev.result.none
               /\ Cardinality(Matching(store, call.domain)) >= 2)
                 => result = Raise("TooManyRecordsError")

C12_Witness ==
    /\ call.op = "get_exactly_one_id"
    /\ call.domain = <<Term("default_sale_tax", 1)>>
    /\ prev.call = call
    /\ prev.result = Return(1)
    /\ Matching(store, call.domain) = {1, 2}
    /\ result = Raise("TooManyRecordsError")

\* C14: the account created for a children list of length n gets n * n links
\* in child_consol_ids, not n: each child's link is there n times in a row, the
\* children in input order.
C14_CrossProduct ==
    (consol.result.kind = "return" /\ ~consol.result.none)
        => LET n == Len(consol.children)
               links == consol.created[1].child_consol_ids
           IN /\ Len(consol.created) = 1
              /\ Len(links) = n * n
              /\ \A i, j \in 1..n :
                    links[(i - 1) * n + j] = <<ADD_EXISTING_ID, consol.children[i], FALSE>>

C14_Witness ==
    /\ consol.children = <<2, 1>>
    /\ consol.result.kind = "return" /\ ~consol.result.none
    /\ consol.created[1].child_consol_ids =
           <<<<4, 2, FALSE>>, <<4, 2, FALSE>>, <<4, 1, FALSE>>, <<4, 1, FALSE>>>>

\* The Sales groups of that name.
SalesGroups(name) ==
    {i \in 1..Len(groups) : groups[i] = [g \in {"category_id.name", "name"} |->
                                            IF g = "name" THEN name ELSE "Sales"]}

\* What one attempt with a group name must end in.
AttemptOutcome(name) ==
    IF SalesGroups(name) = {} THEN Raise("NoRecordsError")
    ELSE IF Cardinality(SalesGroups(name)) > 1 THEN Raise("TooManyRecordsError")
    ELSE IF "Sales" \notin user_fields THEN Raise("KeyError")
    ELSE ReturnNone

\* C13: select_sale_user_level retries, once and with the level's crm name,
\* exactly when the first attempt fails with NoRecordsError: the first attempt
\* has then written nothing, and what the retry raises reaches the caller. A
\* TooManyRecordsError of the first attempt reaches the caller with no retry
\* and the user unwritten.
C13_RetryOnNoRecordsOnly ==
    (sel.context /\ sel.level # PyFalse)
        => /\ Cardinality(SalesGroups(sel.level)) > 1
                 => /\ sel.result = Raise("TooManyRecordsError")
                    /\ sel.attempts = <<sel.level>>
                    /\ sel.writes = <<>> /\ user = sel.user_before
           /\ SalesGroups(sel.level) = {}
                 => /\ sel.attempts = <<sel.level, crm_perm_map[sel.level]>>
                    /\ sel.result = AttemptOutcome(crm_perm_map[sel.level])
                    /\ IF sel.result.kind = "raise"
                       THEN sel.writes = <<>> /\ user = sel.user_before
                       ELSE /\ sel.writes = <<user>>
                            /\ SalesGroups(crm_perm_map[sel.level]) = {user}
           /\ Cardinality(SalesGroups(sel.level)) = 1
                 => /\ sel.attempts = <<sel.level>>
                    /\ sel.result = AttemptOutcome(sel.level)

C13_Witness ==
    /\ sel.context /\ sel.level = "See all Leads"
    /\ sel.attempts = <<"See all Leads", "User: All Leads">>
    /\ sel.result = Raise("TooManyRecordsError")
    /\ user = sel.user_before

\* The positions in the last setup call's log of that ORM call.
SetupOps(model, name) ==
    {k \in 1..Len(setup.log) : setup.log[k].model = model /\ setup.log[k].op = name}

\* C11: setup_company_accounts does nothing for a company that has a chart
\* of accounts: no wizard, no fiscal year, no period. For a company without
\* one, it creates and executes the chart wizard, and only then creates the
\* fiscal year and its periods; the company then has a chart, so that a
\* second call for it changes nothing.
C11_SetupOnlyUnconfigured ==
    setup.called
        => /\ setup.company \in charts
           /\ IF setup.company \in setup.before.charts
              THEN /\ charts = setup.before.charts
                   /\ wizards = setup.before.wizards
                   /\ fiscalyears = setup.before.fiscalyears
                   /\ \A k \in 1..Len(setup.log) : setup.log[k].model = "account.installer"
              ELSE /\ Len(wizards) = Len(setup.before.wizards) + 1
                   /\ Len(fiscalyears) = Len(setup.before.fiscalyears) + 1
                   /\ \A i \in 1..Len(setup.before.wizards) : wizards[i] = setup.before.wizards[i]
                   /\ \A i \in 1..Len(setup.before.fiscalyears) :
                         fiscalyears[i] = setup.before.fiscalyears[i]
                   /\ wizards[Len(wizards)].company_id = setup.company
                   /\ wizards[Len(wizards)].chart_template_id = setup.chart_template
                   /\ fiscalyears[Len(fiscalyears)].company_id = setup.company
                   /\ fiscalyears[Len(fiscalyears)].date_start = <<setup.today, 1, 1>>
                   /\ fiscalyears[Len(fiscalyears)].date_stop = <<setup.today, 12, 31>>
                   /\ \E c, x, f, p \in 1..Len(setup.log) :
                         /\ c < x /\ x < f /\ f < p
                         /\ SetupOps("wizard.multi.charts.accounts", "create") = {c}
                         /\ SetupOps("wizard.multi.charts.accounts", "execute") = {x}
                         /\ SetupOps("account.fiscalyear", "create") = {f}
                         /\ SetupOps("account.fiscalyear", "create_period") = {p}
                         /\ setup.log[c].id = Len(wizards) /\ setup.log[x].id = Len(wizards)
                         /\ setup.log[f].id = Len(fiscalyears) /\ setup.log[p].id = Len(fiscalyears)

\* A second call for a company the first call set up: nothing is done.
C11_Witness ==
    /\ setup.called /\ setup.company = 2
    /\ setup.company \in setup.before.charts
    /\ Len(wizards) = 1 /\ wizards[1].company_id = 2
    /\ Len(fiscalyears) = 1
    /\ Len(setup.log) = 1

====
